---------------------------- MODULE Spec2Model ----------------------------
(***************************************************************************)
(* Model of libnl/misc.py (bytearray_ptr, StructWithPointers, ucred) and   *)
(* libnl/genl/family.py (genl_family accessors and object operations).     *)
(*                                                                         *)
(* Python values are represented as follows:                               *)
(*   bytearray / bytes   a sequence of byte values                         *)
(*   None or an int      <<>> for None, <<n>> for the int n                *)
(*   an exception        the name of its class in an "outcome" field       *)
(* Python indices are 0-based; sequences here are 1-based, so the byte at  *)
(* Python offset i of buffer b is b[i + 1].                                *)
(***************************************************************************)
EXTENDS Integers, Sequences, FiniteSets, TLC

VARIABLES
    pointee,      \* bytearray_ptr.pointee: the parent buffer
    slice,        \* bytearray_ptr.slice: [start, stop] fixed by __init__
    viewLen0,     \* history: len(view) right after construction
    viewLast,     \* history: the last operation on the view and its outcome
    bytearrays,   \* StructWithPointers.bytearrays: the slots, each a bytearray
    pointers,     \* StructWithPointers.pointers: the side table, key -> payload
    ptrPc,        \* "idle", or "loop" inside the while loop of new_pointer
    ptrLast,      \* history: the last operation on the structure and its outcome
    ptrCalls,     \* history: number of new_pointer calls that have ended
    ptrReturned,  \* history: the tokens new_pointer has returned, in order
    fams,         \* the genl_family objects: ce_mask, gf_id, gf_name, gf_mc_grps
    famHist,      \* history: per family, which setters have run and the last id set
    famBefore,    \* history: fams before the last operation
    famLast,      \* history: the last operation on a family and its outcome
    ucredBuf,     \* ucred.bytearray
    ucredHist,    \* history: the value last assigned to pid, uid and gid
    ucredBefore,  \* history: ucred.bytearray before the last assignment
    ucredLast     \* history: the field last assigned

viewVars == <<pointee, slice, viewLen0, viewLast>>
ptrVars == <<bytearrays, pointers, ptrPc, ptrLast, ptrCalls, ptrReturned>>
famVars == <<fams, famHist, famBefore, famLast>>
ucredVars == <<ucredBuf, ucredHist, ucredBefore, ucredLast>>
vars == <<viewVars, ptrVars, famVars, ucredVars>>

----------------------------------------------------------------------------
(* Bounds of the model.                                                    *)

MaxLen == 2          \* longest parent buffer at construction
MaxGrow == 1         \* appends to the parent after construction
MaxIdx == 2          \* magnitude of the start/stop given to the constructor
MaxKey == 2          \* magnitude of the integer keys and slice bounds
MaxVal == 2          \* longest replacement written through a slice key
MaxVarCount == 2     \* slots of a StructWithPointers
MaxLive == 2         \* tokens the caller registers in the side table
MaxCalls == 2        \* new_pointer calls that are counted
SIZEOF_POINTER == 2  \* bytes of a token: ctypes.sizeof(c_void_p), 4 or 8, scaled down
TokenByteMod == 2    \* values of one byte of a token: 256, scaled down
MaxId == 2           \* largest family and group identifier

----------------------------------------------------------------------------
(* Python primitives.                                                      *)

None == <<>>
Some(n) == <<n>>

OptInts(m) == {None} \cup {Some(n) : n \in -m..m}

Min(a, b) == IF a < b THEN a ELSE b
Max(a, b) == IF a > b THEN a ELSE b

\* x or d, for x None or an int: None and 0 are falsy.
PyOr(x, d) == IF x = None \/ x = Some(0) THEN d ELSE x[1]

\* How a slice bound i is resolved against a sequence of length n.
PyClamp(i, n) == IF i < 0 THEN Max(i + n, 0) ELSE Min(i, n)

\* seq[a:b] with integer a, b.
PySlice(seq, a, b) ==
    LET lo == PyClamp(a, Len(seq))
        hi == PyClamp(b, Len(seq))
    IN  IF lo < hi THEN SubSeq(seq, lo + 1, hi) ELSE <<>>

\* seq[a:b] = value, a, b integers: the range [lo, max(lo, hi)) is replaced.
PySliceAssign(seq, a, b, value) ==
    LET lo == PyClamp(a, Len(seq))
        hi == Max(lo, PyClamp(b, Len(seq)))
    IN  SubSeq(seq, 1, lo) \o value \o SubSeq(seq, hi + 1, Len(seq))

\* seq[i] = v is defined for -len <= i < len.
PyIndexOk(seq, i) == -Len(seq) <= i /\ i < Len(seq)
PyIndexAssign(seq, i, v) ==
    LET j == IF i < 0 THEN i + Len(seq) ELSE i
    IN  [seq EXCEPT ![j + 1] = v]

\* The sequences of at most n elements that repeat one element of S.
FillSeqs(S, n) == {[i \in 1..k |-> x] : k \in 0..n, x \in S}

----------------------------------------------------------------------------
(* Each specification below runs one component; the others rest in the     *)
(* state given here.                                                       *)

NoOp == [op |-> "none", outcome |-> "ok", mismatch |-> FALSE]
PtrNoOp == [op |-> "none", outcome |-> "ok", value |-> <<>>]
FamNoOp == [op |-> "none", outcome |-> "ok", fam |-> "none", other |-> "none", value |-> 0, grp |-> <<>>]
EmptyDict == [k \in {} |-> <<>>]

ViewIdle ==
    /\ pointee = <<>>
    /\ slice = [start |-> 0, stop |-> 0]
    /\ viewLen0 = 0
    /\ viewLast = NoOp

PtrIdle ==
    /\ bytearrays = <<>>
    /\ pointers = EmptyDict
    /\ ptrPc = "idle"
    /\ ptrLast = PtrNoOp
    /\ ptrCalls = 0
    /\ ptrReturned = <<>>

FamIdle ==
    /\ fams = EmptyDict
    /\ famHist = EmptyDict
    /\ famBefore = EmptyDict
    /\ famLast = FamNoOp

UcredIdle ==
    /\ ucredBuf = <<>>
    /\ ucredHist = <<>>
    /\ ucredBefore = <<>>
    /\ ucredLast = "none"

----------------------------------------------------------------------------
(* StructWithPointers                                                      *)

SIZEOF_U64 == 8

RECURSIVE Pow(_, _)
Pow(b, e) == IF e = 0 THEN 1 ELSE b * Pow(b, e - 1)

\* bytes(ctypes.c_uintN(x)) for an N of n bytes: x modulo the width of the
\* type, least significant byte first.
RECURSIVE LittleEndian(_, _)
LittleEndian(x, n) ==
    IF n = 0 THEN <<>>
    ELSE <<x % TokenByteMod>> \o LittleEndian(x \div TokenByteMod, n - 1)

\* bytearray(bytes(ctypes.c_uint64(candidate_int)))[:SIZEOF_POINTER]
CandidateBa(candidate_int) ==
    SubSeq(LittleEndian(candidate_int % Pow(TokenByteMod, SIZEOF_U64), SIZEOF_U64),
           1, SIZEOF_POINTER)

\* hash(x) is defined for bytes and raises TypeError for a bytearray, which
\* sets __hash__ to None.
PyHashable(type) == type = "bytes"

\* key in d, for a dict d: the key is hashed before it is looked up.
DictContains(d, type, key) ==
    IF ~PyHashable(type) THEN "TypeError"
    ELSE IF key \in DOMAIN d THEN "in" ELSE "notin"

\* StructWithPointers.bytearray: the loop over self.bytearrays from slot i on.
RECURSIVE ResolveFrom(_, _, _, _)
ResolveFrom(slots, ptrs, i, resolved) ==
    IF i > Len(slots) THEN [outcome |-> "ok", value |-> resolved]
    ELSE LET array == slots[i]
             found == DictContains(ptrs, "bytearray", array)
         IN  IF found = "TypeError" THEN [outcome |-> "TypeError", value |-> <<>>]
             ELSE IF found = "in" THEN ResolveFrom(slots, ptrs, i + 1, resolved \o ptrs[array])
             ELSE ResolveFrom(slots, ptrs, i + 1, resolved \o array)

Resolve(slots, ptrs) == ResolveFrom(slots, ptrs, 1, <<>>)

\* What the caller stores: the tokens it registers, and their payloads.
LiveTokens == {CandidateBa(n) : n \in 1..MaxLive}
Payloads == {<<7>>, <<8, 9>>}
SlotValues == LiveTokens \cup {<<>>, <<3>>}
AllTokens == {CandidateBa(n) : n \in 1..Pow(TokenByteMod, SIZEOF_POINTER)}

\* StructWithPointers.__init__(var_count)
InitPtr ==
    /\ ViewIdle /\ FamIdle /\ UcredIdle
    /\ \E var_count \in 0..MaxVarCount : bytearrays = [i \in 1..var_count |-> <<>>]
    /\ pointers = EmptyDict
    /\ ptrPc = "idle"
    /\ ptrLast = PtrNoOp
    /\ ptrCalls = 0
    /\ ptrReturned = <<>>

\* the caller fills a slot in place
SetSlot ==
    /\ ptrPc = "idle"
    /\ \E i \in 1..Len(bytearrays), data \in SlotValues :
           bytearrays' = [bytearrays EXCEPT ![i] = data]
    /\ ptrLast' = [op |-> "set_slot", outcome |-> "ok", value |-> <<>>]
    /\ UNCHANGED <<pointers, ptrPc, ptrCalls, ptrReturned, viewVars, famVars, ucredVars>>

\* the caller registers a payload: self.pointers[bytes(token)] = payload
Register ==
    /\ ptrPc = "idle"
    /\ \E token \in LiveTokens, payload \in Payloads :
           pointers' = [k \in DOMAIN pointers \cup {token} |->
                           IF k = token THEN payload ELSE pointers[k]]
    /\ ptrLast' = [op |-> "register", outcome |-> "ok", value |-> <<>>]
    /\ UNCHANGED <<bytearrays, ptrPc, ptrCalls, ptrReturned, viewVars, famVars, ucredVars>>

\* the caller removes a payload: del self.pointers[bytes(token)]
Unregister ==
    /\ ptrPc = "idle"
    /\ \E token \in DOMAIN pointers :
           pointers' = [k \in DOMAIN pointers \ {token} |-> pointers[k]]
    /\ ptrLast' = [op |-> "unregister", outcome |-> "ok", value |-> <<>>]
    /\ UNCHANGED <<bytearrays, ptrPc, ptrCalls, ptrReturned, viewVars, famVars, ucredVars>>

\* reading the property StructWithPointers.bytearray
ReadBytearray ==
    /\ ptrPc = "idle"
    /\ LET r == Resolve(bytearrays, pointers)
       IN  ptrLast' = [op |-> "bytearray", outcome |-> r.outcome, value |-> r.value]
    /\ UNCHANGED <<bytearrays, pointers, ptrPc, ptrCalls, ptrReturned, viewVars, famVars, ucredVars>>

\* new_pointer() is called and enters its while loop
NewPointerCall ==
    /\ ptrPc = "idle"
    /\ ptrCalls < MaxCalls
    /\ ptrPc' = "loop"
    /\ ptrLast' = [op |-> "call", outcome |-> "ok", value |-> <<>>]
    /\ UNCHANGED <<bytearrays, pointers, ptrCalls, ptrReturned, viewVars, famVars, ucredVars>>

\* one iteration of the while loop of new_pointer(): it draws a candidate,
\* and returns it, raises, or goes round again
NewPointerLoop ==
    /\ ptrPc = "loop"
    /\ \E candidate_int \in 1..Pow(TokenByteMod, SIZEOF_POINTER) :
           LET candidate_ba == CandidateBa(candidate_int)
               found == DictContains(pointers, "bytearray", candidate_ba)
           IN  IF found = "TypeError"
               THEN /\ ptrPc' = "idle"
                    /\ ptrCalls' = ptrCalls + 1
                    /\ ptrLast' = [op |-> "new_pointer", outcome |-> "TypeError", value |-> <<>>]
                    /\ UNCHANGED ptrReturned
               ELSE IF found = "notin"
               THEN /\ ptrPc' = "idle"
                    /\ ptrCalls' = ptrCalls + 1
                    /\ ptrLast' = [op |-> "new_pointer", outcome |-> "token", value |-> candidate_ba]
                    /\ ptrReturned' = Append(ptrReturned, candidate_ba)
               ELSE UNCHANGED <<ptrPc, ptrCalls, ptrLast, ptrReturned>>
    /\ UNCHANGED <<bytearrays, pointers, viewVars, famVars, ucredVars>>

NextPtr == SetSlot \/ Register \/ Unregister \/ ReadBytearray \/ NewPointerCall \/ NewPointerLoop

SpecPtr == InitPtr /\ [][NextPtr]_vars

----------------------------------------------------------------------------
(* Properties of StructWithPointers                                        *)

\* The flattened structure: for each slot in order, the payload registered
\* under the slot's bytes if there is one, the slot's bytes otherwise.
RECURSIVE Flattened(_, _)
Flattened(slots, ptrs) ==
    IF slots = <<>> THEN <<>>
    ELSE (IF Head(slots) \in DOMAIN ptrs THEN ptrs[Head(slots)] ELSE Head(slots))
         \o Flattened(Tail(slots), ptrs)

\* C4: the new_pointer calls made so far have each returned a token of
\* SIZEOF_POINTER bytes that was not a key of the side table, and the tokens
\* are pairwise distinct.
C4_TokensDistinct ==
    /\ Len(ptrReturned) = ptrCalls
    /\ \A i \in 1..Len(ptrReturned) : Len(ptrReturned[i]) = SIZEOF_POINTER
    /\ \A i, j \in 1..Len(ptrReturned) : i # j => ptrReturned[i] # ptrReturned[j]
    /\ (ptrLast.op = "new_pointer" /\ ptrLast.outcome = "token")
           => ptrLast.value \notin DOMAIN pointers

\* C5: reading the bytearray property returns the flattened structure as the
\* slots and the side table are at the time of the read.
C5_ResolveSubstitutes ==
    ptrLast.op = "bytearray" =>
        /\ ptrLast.outcome = "ok"
        /\ ptrLast.value = Flattened(bytearrays, pointers)

\* C10: a new_pointer call ends with a token, or with an error when every
\* token is a key of the side table.
C10_TokenOrExhaustion ==
    /\ ptrLast.op = "new_pointer" =>
           \/ ptrLast.outcome = "token"
           \/ AllTokens \subseteq DOMAIN pointers

----------------------------------------------------------------------------
(* bytearray_ptr                                                           *)

ParentBytes == {0}      \* bytes of the parent at construction and appended later
ViewBytes == {1}        \* bytes written through the view

\* bytearray_ptr.__init__: the slice stored for (pointee, start, stop).
ViewInitSlice(p, start, stop) ==
    LET s0 == PyOr(start, 0)
        e0 == PyOr(stop, IF stop = Some(0) THEN s0 ELSE Len(p))
        s1 == IF s0 < 0 THEN s0 + Len(p) ELSE s0
        e1 == IF e0 < 0 THEN e0 + Len(p) ELSE e0
    IN  [start |-> s1, stop |-> e1]

\* bytearray_ptr.__len__
ViewLen(p, sl) == Len(PySlice(p, sl.start, sl.stop))

\* The length guard of __setitem__ ("Catch invalid length").
LengthMismatchOff(isInt, tgt, value) == FALSE
LengthMismatch(isInt, tgt, value) == ~isInt /\ Len(tgt) # Len(value)

\* bytearray_ptr.__setitem__: the parent after the call, and the outcome.
\* key is an integer (isInt) or the pair of bounds of a slice.
SetItemResult(p, sl, isInt, ikey, ks, ke, value) ==
    LET n == ViewLen(p, sl)
        k1 == IF ikey < 0 THEN ikey + n ELSE ikey
        kstart == IF isInt THEN Some(k1) ELSE ks
        kstop == IF isInt THEN Some(k1 + 1) ELSE ke
        st0 == PyOr(kstart, 0)
        st1 == IF st0 < 0 THEN st0 + n ELSE st0
        sp0 == PyOr(kstop, IF kstop = Some(0) THEN st1 ELSE n)
        sp1 == IF sp0 < 0 THEN sp0 + n ELSE sp0
        start == st1 + sl.start
        stop == Min(sp1 + sl.start, sl.stop)
        tgt == PySlice(p, start, stop)
        written == IF isInt THEN PyIndexAssign(p, start, value)
                   ELSE PySliceAssign(p, start, stop, value)
        res(q, o) == [pointee |-> q, outcome |-> o,
                      mismatch |-> ~isInt /\ Len(tgt) # Len(value)]
    IN  IF st1 >= n THEN res(p, "IndexError")
        ELSE IF LengthMismatch(isInt, tgt, value) THEN res(p, "TypeError")
        ELSE IF isInt /\ value \notin 0..255 THEN res(p, "ValueError")
        ELSE IF isInt /\ ~PyIndexOk(p, start) THEN res(p, "IndexError")
        ELSE IF Len(written) # Len(p) THEN res(written, "RuntimeError")
        ELSE res(written, "ok")

InitView ==
    /\ PtrIdle /\ FamIdle /\ UcredIdle
    /\ pointee \in FillSeqs(ParentBytes, MaxLen)
    /\ \E start \in OptInts(MaxIdx), stop \in OptInts(MaxIdx) :
           slice = ViewInitSlice(pointee, start, stop)
    /\ viewLen0 = ViewLen(pointee, slice)
    /\ viewLast = NoOp

\* view[key] = value, integer key
SetItemInt ==
    \E key \in -MaxKey..MaxKey, value \in ViewBytes \cup {256} :
        \E r \in {SetItemResult(pointee, slice, TRUE, key, None, None, value)} :
            /\ pointee' = r.pointee
            /\ viewLast' = [op |-> "setint", outcome |-> r.outcome,
                            mismatch |-> r.mismatch]
            /\ UNCHANGED <<slice, viewLen0, ptrVars, famVars, ucredVars>>

\* view[ks:ke] = value
SetItemSlice ==
    \E ks \in OptInts(MaxKey), ke \in OptInts(MaxKey), value \in FillSeqs(ViewBytes, MaxVal) :
        \E r \in {SetItemResult(pointee, slice, FALSE, 0, ks, ke, value)} :
            /\ pointee' = r.pointee
            /\ viewLast' = [op |-> "setslice", outcome |-> r.outcome,
                            mismatch |-> r.mismatch]
            /\ UNCHANGED <<slice, viewLen0, ptrVars, famVars, ucredVars>>

\* del view[key]: bytearray_ptr.__delitem__ raises whatever the key
DelItem ==
    /\ pointee' = pointee
    /\ viewLast' = [op |-> "del", outcome |-> "TypeError", mismatch |-> FALSE]
    /\ UNCHANGED <<slice, viewLen0, ptrVars, famVars, ucredVars>>

\* the owner of the parent buffer extends it on the right
AppendParent ==
    /\ Len(pointee) < MaxLen + MaxGrow
    /\ \E b \in ParentBytes : pointee' = Append(pointee, b)
    /\ viewLast' = [op |-> "append", outcome |-> "ok", mismatch |-> FALSE]
    /\ UNCHANGED <<slice, viewLen0, ptrVars, famVars, ucredVars>>

NextView == SetItemInt \/ SetItemSlice \/ DelItem \/ AppendParent

SpecView == InitView /\ [][NextView]_vars

----------------------------------------------------------------------------
(* Properties of bytearray_ptr                                             *)

\* The bounds of the view resolved against a parent of length n.
ViewLo(n) == PyClamp(slice.start, n)
ViewHi(n) == PyClamp(slice.stop, n)

\* C1: a write through the view that succeeds keeps the parent's length and
\* every parent byte at an offset outside the view's bounds [start, stop).
C1_WriteStaysInsideView ==
    [][(viewLast'.op \in {"setint", "setslice"} /\ viewLast'.outcome = "ok") =>
          /\ Len(pointee') = Len(pointee)
          /\ \A i \in 0..(Len(pointee) - 1) :
                 (i < ViewLo(Len(pointee)) \/ i >= ViewHi(Len(pointee)))
                     => pointee'[i + 1] = pointee[i + 1]]_vars

C3_ViewLenFixed == ViewLen(pointee, slice) = viewLen0

----------------------------------------------------------------------------
(* genl_family                                                             *)

FAMILY_ATTR_ID == 1
FAMILY_ATTR_NAME == 2
FAMILY_ATTR_VERSION == 4
FAMILY_ATTR_HDRSIZE == 8
FAMILY_ATTR_MAXATTR == 16
FAMILY_ATTR_OPS == 32

FamilyAllAttrs ==
    FAMILY_ATTR_ID + FAMILY_ATTR_NAME + FAMILY_ATTR_VERSION + FAMILY_ATTR_HDRSIZE
        + FAMILY_ATTR_MAXATTR + FAMILY_ATTR_OPS

\* linux_private.genetlink.GENL_ID_GENERATE
GENL_ID_GENERATE == 0

RECURSIVE BitAnd(_, _)
BitAnd(a, b) ==
    IF a = 0 \/ b = 0 THEN 0
    ELSE (a % 2) * (b % 2) + 2 * BitAnd(a \div 2, b \div 2)

RECURSIVE BitOr(_, _)
BitOr(a, b) ==
    IF a = 0 THEN b
    ELSE IF b = 0 THEN a
    ELSE Max(a % 2, b % 2) + 2 * BitOr(a \div 2, b \div 2)

Families == {"a", "b"}
FamIds == 0..MaxId
FamNames == {"nl80211", "nlctrl"}

\* genl_family_alloc(): the object as the allocator hands it out.
genl_family_alloc == [ce_mask |-> 0, gf_id |-> 0, gf_name |-> "", gf_mc_grps |-> <<>>]

\* genl_family_get_id(family)
genl_family_get_id(family) ==
    IF BitAnd(family.ce_mask, FAMILY_ATTR_ID) # 0 THEN family.gf_id ELSE GENL_ID_GENERATE

\* genl_family_set_id(family, id_): the family after the call.
set_id_keeps_mask(family, id_) == [family EXCEPT !.gf_id = id_]
genl_family_set_id(family, id_) ==
    [family EXCEPT !.gf_id = id_, !.ce_mask = BitOr(@, FAMILY_ATTR_ID)]

\* genl_family_set_name(family, name): the family after the call.
genl_family_set_name(family, name) ==
    [family EXCEPT !.gf_name = name, !.ce_mask = BitOr(@, FAMILY_ATTR_NAME)]

\* genl_family_add_grp(family, id_, name): the family after the call and the
\* outcome; the function builds the group and raises.
genl_family_add_grp(family, id_, name) ==
    [family |-> family, outcome |-> "NotImplementedError"]

\* family_clone(dst, src): dst after the call and the outcome.
family_clone(dst, src) == [dst |-> dst, outcome |-> "NotImplementedError"]

\* family_compare(a, b, attrs, flags)
family_compare(a, b, attrs, flags) == [outcome |-> "NotImplementedError", value |-> 0]

NoHist == [idSet |-> FALSE, nameSet |-> FALSE, lastId |-> 0]

InitFamily ==
    /\ ViewIdle /\ PtrIdle /\ UcredIdle
    /\ fams = [f \in Families |-> genl_family_alloc]
    /\ famHist = [f \in Families |-> NoHist]
    /\ famBefore = fams
    /\ famLast = FamNoOp

SetId ==
    \E f \in Families, id_ \in FamIds :
        /\ fams' = [fams EXCEPT ![f] = genl_family_set_id(fams[f], id_)]
        /\ famHist' = [famHist EXCEPT ![f].idSet = TRUE, ![f].lastId = id_]
        /\ famBefore' = fams
        /\ famLast' = [FamNoOp EXCEPT !.op = "set_id", !.fam = f, !.value = id_]
        /\ UNCHANGED <<viewVars, ptrVars, ucredVars>>

SetName ==
    \E f \in Families, name \in FamNames :
        /\ fams' = [fams EXCEPT ![f] = genl_family_set_name(fams[f], name)]
        /\ famHist' = [famHist EXCEPT ![f].nameSet = TRUE]
        /\ famBefore' = fams
        /\ famLast' = [FamNoOp EXCEPT !.op = "set_name", !.fam = f]
        /\ UNCHANGED <<viewVars, ptrVars, ucredVars>>

GetId ==
    \E f \in Families :
        /\ famBefore' = fams
        /\ famLast' = [FamNoOp EXCEPT !.op = "get_id", !.fam = f,
                                      !.value = genl_family_get_id(fams[f])]
        /\ UNCHANGED <<fams, famHist, viewVars, ptrVars, ucredVars>>

AddGrp ==
    \E f \in Families, id_ \in FamIds, name \in FamNames :
        LET r == genl_family_add_grp(fams[f], id_, name)
        IN  /\ fams' = [fams EXCEPT ![f] = r.family]
            /\ famBefore' = fams
            /\ famLast' = [FamNoOp EXCEPT !.op = "add_grp", !.fam = f, !.outcome = r.outcome,
                                          !.grp = <<[id |-> id_, name |-> name]>>]
            /\ UNCHANGED <<famHist, viewVars, ptrVars, ucredVars>>

\* genl_family_ops.oo_clone(dst, src)
Clone ==
    \E d \in Families : \E s \in Families \ {d} :
        LET r == family_clone(fams[d], fams[s])
        IN  /\ fams' = [fams EXCEPT ![d] = r.dst]
            /\ famBefore' = fams
            /\ famLast' = [FamNoOp EXCEPT !.op = "clone", !.fam = d, !.other = s,
                                          !.outcome = r.outcome]
            /\ UNCHANGED <<famHist, viewVars, ptrVars, ucredVars>>

\* genl_family_ops.oo_compare(a, b, attrs, flags) over all attributes
Compare ==
    \E a \in Families : \E b \in Families \ {a} :
        LET r == family_compare(fams[a], fams[b], FamilyAllAttrs, 0)
        IN  /\ famBefore' = fams
            /\ famLast' = [FamNoOp EXCEPT !.op = "compare", !.fam = a, !.other = b,
                                          !.outcome = r.outcome, !.value = r.value]
            /\ UNCHANGED <<fams, famHist, viewVars, ptrVars, ucredVars>>

NextFamily == SetId \/ SetName \/ GetId \/ AddGrp \/ Clone \/ Compare

SpecFamily == InitFamily /\ [][NextFamily]_vars

----------------------------------------------------------------------------
(* Properties of genl_family                                               *)

ExpectedMask(h) ==
    (IF h.idSet THEN FAMILY_ATTR_ID ELSE 0) + (IF h.nameSet THEN FAMILY_ATTR_NAME ELSE 0)

\* C6: ce_mask holds exactly the ID bit if set_id was ever called and the NAME
\* bit if set_name was ever called; get_id returns the last id set, or
\* GENL_ID_GENERATE when none was, and never raises.
C6_MaskAndId ==
    /\ \A f \in DOMAIN fams : fams[f].ce_mask = ExpectedMask(famHist[f])
    /\ famLast.op = "get_id" =>
           /\ famLast.outcome = "ok"
           /\ famLast.value = IF famHist[famLast.fam].idSet
                              THEN famHist[famLast.fam].lastId
                              ELSE GENL_ID_GENERATE

C6_Witness ==
    /\ famLast.op = "get_id"
    /\ famHist[famLast.fam].idSet
    /\ famHist[famLast.fam].nameSet
    /\ famLast.value # GENL_ID_GENERATE
    /\ fams[famLast.fam].ce_mask = 3

\* C7: genl_family_add_grp succeeds, appends the group to the end of the
\* family's groups and sets the bit 0x20 of ce_mask.
C7_AddGrpAppends ==
    famLast.op = "add_grp" =>
        /\ famLast.outcome = "ok"
        /\ fams[famLast.fam].gf_mc_grps = famBefore[famLast.fam].gf_mc_grps \o famLast.grp
        /\ BitAnd(fams[famLast.fam].ce_mask, FAMILY_ATTR_OPS) # 0

\* C8: family_clone(dst, src) completes and leaves dst with the mask and the
\* fields of src, so that comparing them over all attributes yields 0.
C8_CloneCopies ==
    famLast.op = "clone" =>
        /\ famLast.outcome = "ok"
        /\ fams[famLast.fam] = fams[famLast.other]
        /\ family_compare(fams[famLast.fam], fams[famLast.other], FamilyAllAttrs, 0)
               = [outcome |-> "ok", value |-> 0]

----------------------------------------------------------------------------
(* StructNoPointers and ucred                                              *)
(*                                                                         *)
(* A Python int v of the unsigned 32-bit range is held as the record       *)
(* [hi, lo] of its two 16-bit halves, v = hi * 65536 + lo, since the       *)
(* values from 2^31 on, which ctypes.c_int32 wraps, exceed the integers    *)
(* TLC computes with.                                                      *)

SIZEOF_U32 == 4
SIGNATURE == <<SIZEOF_U32, SIZEOF_U32, SIZEOF_U32>>

RECURSIVE SumSeq(_)
SumSeq(q) == IF q = <<>> THEN 0 ELSE Head(q) + SumSeq(Tail(q))

SIZEOF == SumSeq(SIGNATURE)

U32(hi, lo) == [hi |-> hi, lo |-> lo]
U32Values == {U32(0, 0), U32(0, 1), U32(0, 300), U32(1, 0), U32(32768, 0), U32(65535, 65535)}

\* ctypes.c_int32(v).value: v modulo 2^32, read as a signed 32-bit integer.
CInt32(v) == IF v.hi >= 32768 THEN (v.hi - 65536) * 65536 + v.lo ELSE v.hi * 65536 + v.lo

\* bytearray(ctypes.c_int32(v)): the four bytes of the two's complement
\* representation, least significant first.
CInt32Bytes(v) ==
    LET x == CInt32(v)
    IN  <<x % 256, (x \div 256) % 256, (x \div 65536) % 256, (x \div 16777216) % 256>>

\* ctypes.c_uint32.from_buffer(b).value for a buffer b of four bytes.
CUInt32Value(b) == U32(b[3] + 256 * b[4], b[1] + 256 * b[2])

\* StructNoPointers._get_slicers(index): the slice of field index, or the
\* IndexError it raises.
get_slicers_first(index) == [outcome |-> "ok", start |-> 0, stop |-> SIGNATURE[1]]
get_slicers(index) ==
    IF index = 0 THEN [outcome |-> "ok", start |-> 0, stop |-> SIGNATURE[1]]
    ELSE IF index >= Len(SIGNATURE) THEN [outcome |-> "IndexError", start |-> 0, stop |-> 0]
    ELSE LET pad_start == SumSeq(SubSeq(SIGNATURE, 1, index))
         IN  [outcome |-> "ok", start |-> pad_start, stop |-> pad_start + SIGNATURE[index + 1]]

\* bytes.strip(b'\0'): the leading and the trailing null bytes are removed.
RECURSIVE LStripNull(_)
LStripNull(b) == IF b # <<>> /\ Head(b) = 0 THEN LStripNull(Tail(b)) ELSE b
RECURSIVE RStripNull(_)
RStripNull(b) == IF b # <<>> /\ b[Len(b)] = 0 THEN RStripNull(SubSeq(b, 1, Len(b) - 1)) ELSE b

\* StructNoPointers.__bool__
StructBool(ba) == RStripNull(LStripNull(ba)) # <<>>

\* The getters ucred.pid, ucred.uid, ucred.gid: field 0, 1, 2.
UcredGet(ba, index) ==
    LET sl == get_slicers(index)
    IN  CUInt32Value(PySlice(ba, sl.start, sl.stop))

\* The setters of ucred.pid, ucred.uid, ucred.gid: the buffer after the call.
\* value is an int, for which "value or 0" is value.
UcredSet(ba, index, value) ==
    LET sl == get_slicers(index)
    IN  PySliceAssign(ba, sl.start, sl.stop, CInt32Bytes(value))

UcredFields == <<"pid", "uid", "gid">>

\* ucred(): the buffer of SIZEOF null bytes, then pid, uid and gid set to 0.
InitUcred ==
    /\ ViewIdle /\ PtrIdle /\ FamIdle
    /\ ucredBuf = UcredSet(UcredSet(UcredSet([i \in 1..SIZEOF |-> 0], 0, U32(0, 0)),
                                    1, U32(0, 0)), 2, U32(0, 0))
    /\ ucredHist = [i \in 1..3 |-> U32(0, 0)]
    /\ ucredBefore = ucredBuf
    /\ ucredLast = "none"

\* ucred.pid = value
SetPid ==
    \E value \in U32Values :
        /\ ucredBuf' = UcredSet(ucredBuf, 0, value)
        /\ ucredHist' = [ucredHist EXCEPT ![1] = value]
        /\ ucredBefore' = ucredBuf
        /\ ucredLast' = "pid"
        /\ UNCHANGED <<viewVars, ptrVars, famVars>>

\* ucred.uid = value
SetUid ==
    \E value \in U32Values :
        /\ ucredBuf' = UcredSet(ucredBuf, 1, value)
        /\ ucredHist' = [ucredHist EXCEPT ![2] = value]
        /\ ucredBefore' = ucredBuf
        /\ ucredLast' = "uid"
        /\ UNCHANGED <<viewVars, ptrVars, famVars>>

\* ucred.gid = value
SetGid ==
    \E value \in U32Values :
        /\ ucredBuf' = UcredSet(ucredBuf, 2, value)
        /\ ucredHist' = [ucredHist EXCEPT ![3] = value]
        /\ ucredBefore' = ucredBuf
        /\ ucredLast' = "gid"
        /\ UNCHANGED <<viewVars, ptrVars, famVars>>

NextUcred == SetPid \/ SetUid \/ SetGid

SpecUcred == InitUcred /\ [][NextUcred]_vars

----------------------------------------------------------------------------
(* Properties of ucred                                                     *)

FieldBytes(ba, index) == SubSeq(ba, 4 * index + 1, 4 * index + 4)

\* C9: each getter returns the value last assigned to its field (0 at first),
\* an assignment leaves the bytes of the other two fields alone, the buffer
\* keeps its 12 bytes with pid, uid, gid at [0,4), [4,8), [8,12), and the
\* structure is falsy exactly when the 12 bytes are null.
C9_UcredRoundTrip ==
    /\ \A index \in 0..2 : UcredGet(ucredBuf, index) = ucredHist[index + 1]
    /\ \A index \in 0..2 :
           (ucredLast # "none" /\ ucredLast # UcredFields[index + 1])
               => FieldBytes(ucredBuf, index) = FieldBytes(ucredBefore, index)
    /\ Len(ucredBuf) = 12
    /\ SIZEOF = 12
    /\ \A index \in 0..2 :
           get_slicers(index) = [outcome |-> "ok", start |-> 4 * index, stop |-> 4 * index + 4]
    /\ StructBool(ucredBuf) = (\E i \in 1..Len(ucredBuf) : ucredBuf[i] # 0)

C9_Witness ==
    /\ ucredLast = "gid"
    /\ ucredHist = <<U32(65535, 65535), U32(32768, 0), U32(0, 300)>>
    /\ FieldBytes(ucredBuf, 0) = <<255, 255, 255, 255>>
    /\ FieldBytes(ucredBuf, 1) = <<0, 0, 0, 128>>
    /\ FieldBytes(ucredBuf, 2) = <<44, 1, 0, 0>>
    /\ StructBool(ucredBuf)

=============================================================================
